---------------------------- MODULE Spec2Model ----------------------------
(***************************************************************************)
(* Model of build_html.py: the notebook conversion fan-out of main(), the  *)
(* assembly loop of build_combined_html(), and the text rewrites           *)
(* _rewrite_src, _add_heading_ids and add_back_link.                       *)
(*                                                                         *)
(* Text is a sequence of one-character strings.  A body is a sequence of   *)
(* elements: the level 1-4 heading elements that the heading pattern of    *)
(* the code delimits, each with its level, attrs and inner markup, and the *)
(* text between them.                                                      *)
(***************************************************************************)
EXTENDS Integers, Sequences, FiniteSets, TLC

VARIABLES
    mpc,                 \* position of main(): req, submit, collect, raising, build, done, aborted, error; idle outside a run
    max_workers,         \* size of the thread pool
    task,                \* task[i]: position of the i-th submitted _convert_notebook call
    rc,                  \* rc[i]: exit status of the converter for notebook i (-1: not run)
    finish_order,        \* the order in which the tasks finished
    html_paths,          \* the paths handed to build_combined_html
    idx,                 \* loop index of build_combined_html (0-based, as in the code)
    toc_items,           \* toc_items of build_combined_html
    sections,            \* sections of build_combined_html
    doc_headings,        \* the headings list _add_heading_ids returned for each processed file
    part_break_inserted, \* the flag of build_combined_html
    head_content,        \* head of the first file
    combined,            \* the document written to output_path (<<>> before the write)
    rw                   \* the call of _rewrite_src under study: input and result

vars == <<mpc, max_workers, task, rc, finish_order, html_paths, idx, toc_items,
          sections, doc_headings, part_break_inserted, head_content, combined, rw>>

mainVars == <<mpc, max_workers, task, rc, finish_order, html_paths>>

buildVars == <<idx, toc_items, sections, doc_headings, part_break_inserted,
               head_content, combined>>

-----------------------------------------------------------------------------
(* Characters and the string methods the code uses.                        *)

Lowers == <<"a","b","c","d","e","f","g","h","i","j","k","l","m","n","o","p","q","r","s","t","u","v","w","x","y","z">>

Uppers == <<"A","B","C","D","E","F","G","H","I","J","K","L","M","N","O","P","Q","R","S","T","U","V","W","X","Y","Z">>

Digits == <<"0","1","2","3","4","5","6","7","8","9">>

Range(s) == {s[i] : i \in 1..Len(s)}

LowerSet == Range(Lowers)

UpperSet == Range(Uppers)

DigitSet == Range(Digits)

IsLowerChar(c) == c \in LowerSet

IsUpperChar(c) == c \in UpperSet

IsDigitChar(c) == c \in DigitSet

\* \s of the re module, restricted to the characters that occur
IsSpace(c) == c \in {" ", "\n", "\t"}

\* \w of the re module, restricted to ASCII
IsWordChar(c) == IsLowerChar(c) \/ IsUpperChar(c) \/ IsDigitChar(c) \/ c = "_"

ToLower(c) == IF IsUpperChar(c) THEN Lowers[CHOOSE i \in 1..26 : Uppers[i] = c] ELSE c

ToUpper(c) == IF IsLowerChar(c) THEN Uppers[CHOOSE i \in 1..26 : Lowers[i] = c] ELSE c

\* str.lower()
Lower(s) == [i \in 1..Len(s) |-> ToLower(s[i])]

\* s[i:] starts with lit; ci: re.IGNORECASE
StartsWithAt(s, i, lit, ci) ==
    /\ i >= 1
    /\ i + Len(lit) - 1 <= Len(s)
    /\ \A k \in 1..Len(lit) :
          IF ci THEN ToLower(s[i + k - 1]) = ToLower(lit[k]) ELSE s[i + k - 1] = lit[k]

\* str.startswith
StartsWith(s, lit) == StartsWithAt(s, 1, lit, FALSE)

\* least index >= i at which lit starts, 0 when there is none
FindFrom(s, i, lit, ci) ==
    LET hits == {k \in i..Len(s) : StartsWithAt(s, k, lit, ci)}
    IN  IF hits = {} THEN 0 ELSE CHOOSE k \in hits : \A m \in hits : k <= m

\* str.strip(): whitespace removed at both ends
Strip(s) ==
    LET keep == {i \in 1..Len(s) : ~IsSpace(s[i])}
    IN  IF keep = {} THEN <<>>
        ELSE SubSeq(s, CHOOSE i \in keep : \A m \in keep : i <= m,
                       CHOOSE i \in keep : \A m \in keep : i >= m)

\* str.strip("-")
StripHyphens(s) ==
    LET keep == {i \in 1..Len(s) : s[i] # "-"}
    IN  IF keep = {} THEN <<>>
        ELSE SubSeq(s, CHOOSE i \in keep : \A m \in keep : i <= m,
                       CHOOSE i \in keep : \A m \in keep : i >= m)

\* str.replace("_", " ")
ReplaceUnderscores(s) == [i \in 1..Len(s) |-> IF s[i] = "_" THEN " " ELSE s[i]]

\* str.title(): a letter is upper-cased after a non-letter and lower-cased after a letter
Title(s) ==
    [i \in 1..Len(s) |->
        IF i > 1 /\ (IsLowerChar(s[i - 1]) \/ IsUpperChar(s[i - 1]))
        THEN ToLower(s[i]) ELSE ToUpper(s[i])]

RECURSIVE IntToStr(_)
\* str(n) of an f-string, n >= 0
IntToStr(n) == IF n < 10 THEN <<Digits[n + 1]>> ELSE IntToStr(n \div 10) \o <<Digits[(n % 10) + 1]>>

RECURSIVE Join(_, _)
\* sep.join(parts)
Join(parts, sep) ==
    IF parts = <<>> THEN <<>>
    ELSE IF Len(parts) = 1 THEN parts[1]
    ELSE parts[1] \o sep \o Join(Tail(parts), sep)

-----------------------------------------------------------------------------
(* Paths: a pure path is its list of components below "/"; every path of   *)
(* the model is absolute once joined to base_dir.                          *)

RECURSIVE SplitSlash(_)
\* the pieces of s between "/" characters (empty pieces included)
SplitSlash(s) ==
    LET k == FindFrom(s, 1, <<"/">>, FALSE)
    IN  IF k = 0 THEN <<s>>
        ELSE <<SubSeq(s, 1, k - 1)>> \o SplitSlash(SubSeq(s, k + 1, Len(s)))

\* pathlib's parsing of a path string: empty and "." components are dropped
PathParts(s) == SelectSeq(SplitSlash(s), LAMBDA p : p # <<>> /\ p # <<".">>)

\* base_dir / src: an absolute right operand replaces the left one
PathJoin(base, s) == IF StartsWith(s, <<"/">>) THEN PathParts(s) ELSE base \o PathParts(s)

RECURSIVE ResolveParts(_, _)
\* Path.resolve() on a path without symbolic links: ".." removes the
\* component before it, and is dropped at the root
ResolveParts(done, rest) ==
    IF rest = <<>> THEN done
    ELSE IF Head(rest) = <<".", ".">>
         THEN ResolveParts(IF done = <<>> THEN <<>> ELSE SubSeq(done, 1, Len(done) - 1), Tail(rest))
         ELSE ResolveParts(Append(done, Head(rest)), Tail(rest))

Resolve(p) == ResolveParts(<<>>, p)

\* Path.relative_to does not raise ValueError
IsRelativeTo(p, root) == Len(root) <= Len(p) /\ SubSeq(p, 1, Len(root)) = root

\* Path.relative_to(root).as_posix()
RelativePosix(p, root) ==
    IF Len(p) = Len(root) THEN <<".">>
    ELSE Join(SubSeq(p, Len(root) + 1, Len(p)), <<"/">>)

\* re.match(r"^(?:[a-z]+:)?//", src)
SchemeMatch(src) ==
    \/ StartsWith(src, <<"/","/">>)
    \/ \E k \in 1..Len(src) :
          /\ \A i \in 1..k : IsLowerChar(src[i])
          /\ StartsWithAt(src, k + 1, <<":","/","/">>, FALSE)

\* repl of _rewrite_src: the text that replaces src="<src>"
rewrite_src_repl(src, base_dir, repo_root) ==
    LET whole == <<"s","r","c","=","\"">> \o src \o <<"\"">>
        src_path == Resolve(PathJoin(base_dir, src))
    IN  IF SchemeMatch(src) \/ StartsWith(src, <<"d","a","t","a",":">>) \/ StartsWith(src, <<"#">>)
        THEN whole
        ELSE IF ~IsRelativeTo(src_path, Resolve(repo_root))
        THEN whole
        ELSE <<"s","r","c","=","\"">> \o RelativePosix(src_path, Resolve(repo_root)) \o <<"\"">>

RECURSIVE RewriteSrcFrom(_, _, _, _)
\* re.sub(r'src="([^"]+)"', repl, s) from position i on
RewriteSrcFrom(s, i, base_dir, repo_root) ==
    LET k == FindFrom(s, i, <<"s","r","c","=","\"">>, FALSE)
        q == FindFrom(s, k + 5, <<"\"">>, FALSE)
    IN  IF k = 0 THEN SubSeq(s, i, Len(s))
        ELSE IF q >= k + 6
        THEN SubSeq(s, i, k - 1)
                 \o rewrite_src_repl(SubSeq(s, k + 5, q - 1), base_dir, repo_root)
                 \o RewriteSrcFrom(s, q + 1, base_dir, repo_root)
        ELSE SubSeq(s, i, k) \o RewriteSrcFrom(s, k + 1, base_dir, repo_root)

rewrite_src(body_html, base_dir, repo_root) == RewriteSrcFrom(body_html, 1, base_dir, repo_root)

-----------------------------------------------------------------------------
(* Headings.                                                               *)

\* an element of a body: a heading <h{level}{attrs}>{inner}</h{level}>, or other text
Heading(level, attrs, inner) == [kind |-> "h", level |-> level, attrs |-> attrs, inner |-> inner]

Text(s) == [kind |-> "text", level |-> 0, attrs |-> <<>>, inner |-> s]

RECURSIVE StripAnchorFrom(_, _)
\* re.sub(r'<a[^>]*class="anchor-link"[^>]*>.*?</a>', "", s, DOTALL | IGNORECASE) from position i on
StripAnchorFrom(s, i) ==
    LET lit == <<"c","l","a","s","s","=","\"","a","n","c","h","o","r","-","l","i","n","k","\"">>
        k == FindFrom(s, i, <<"<","a">>, TRUE)
        j == FindFrom(s, k + 2, <<">">>, FALSE)
        c == FindFrom(s, k + 2, lit, TRUE)
        e == IF j = 0 THEN 0 ELSE FindFrom(s, j + 1, <<"<","/","a",">">>, TRUE)
    IN  IF k = 0 THEN SubSeq(s, i, Len(s))
        ELSE IF j # 0 /\ c # 0 /\ c + Len(lit) - 1 < j /\ e # 0
        THEN SubSeq(s, i, k - 1) \o StripAnchorFrom(s, e + 4)
        ELSE SubSeq(s, i, k) \o StripAnchorFrom(s, k + 1)

strip_anchor(inner_html) == Strip(StripAnchorFrom(inner_html, 1))

RECURSIVE StripTagsFrom(_, _)
\* re.sub(r"<[^>]+>", "", s) from position i on
StripTagsFrom(s, i) ==
    LET k == FindFrom(s, i, <<"<">>, FALSE)
        j == FindFrom(s, k + 1, <<">">>, FALSE)
    IN  IF k = 0 THEN SubSeq(s, i, Len(s))
        ELSE IF j >= k + 2
        THEN SubSeq(s, i, k - 1) \o StripTagsFrom(s, j + 1)
        ELSE SubSeq(s, i, k) \o StripTagsFrom(s, k + 1)

strip_tags(inner_html) == Strip(StripTagsFrom(inner_html, 1))

\* [a-zA-Z0-9_-]
IsSlugChar(c) == IsWordChar(c) \/ c = "-"

RECURSIVE SlugSubFrom(_, _)
\* re.sub(r"[^a-zA-Z0-9_-]+", "-", s) from position i on
SlugSubFrom(s, i) ==
    IF i > Len(s) THEN <<>>
    ELSE IF IsSlugChar(s[i]) THEN <<s[i]>> \o SlugSubFrom(s, i + 1)
    ELSE LET next == {k \in (i + 1)..Len(s) : IsSlugChar(s[k])}
         IN  <<"-">> \o (IF next = {} THEN <<>>
                         ELSE SlugSubFrom(s, CHOOSE k \in next : \A m \in next : k <= m))

\* slug of _add_heading_ids.repl
Slug(display_text) == Lower(StripHyphens(SlugSubFrom(display_text, 1)))

RECURSIVE RemoveIdFrom(_, _)
\* re.sub(r'\s+id="[^"]*"', "", attrs, IGNORECASE) from position i on
RemoveIdFrom(s, i) ==
    IF i > Len(s) THEN <<>>
    ELSE LET rest == {k \in i..Len(s) : ~IsSpace(s[k])}
             k == IF rest = {} THEN 0 ELSE CHOOSE n \in rest : \A m \in rest : n <= m
             q == IF k = 0 THEN 0 ELSE FindFrom(s, k + 4, <<"\"">>, FALSE)
         IN  IF IsSpace(s[i]) /\ k # 0 /\ StartsWithAt(s, k, <<"i","d","=","\"">>, TRUE) /\ q # 0
             THEN RemoveIdFrom(s, q + 1)
             ELSE <<s[i]>> \o RemoveIdFrom(s, i + 1)

\* the fallback ordinal taken as len(headings), without the + 1
AnchorForZeroBased(prefix, level, slug, count) ==
    IF slug # <<>> THEN prefix \o <<"-">> \o slug
    ELSE prefix \o <<"-","h">> \o IntToStr(level) \o <<"-">> \o IntToStr(count)

\* the anchor id of the heading that is processed when `count` headings were recorded
AnchorFor(prefix, level, slug, count) ==
    IF slug # <<>> THEN prefix \o <<"-">> \o slug
    ELSE prefix \o <<"-","h">> \o IntToStr(level) \o <<"-">> \o IntToStr(count + 1)

RECURSIVE AddIdsFrom(_, _, _, _)
\* re.sub(heading pattern, repl, body_html) of _add_heading_ids from element i on,
\* with the headings recorded so far
AddIdsFrom(body, i, prefix, headings) ==
    IF i > Len(body) THEN [body |-> <<>>, headings |-> headings]
    ELSE IF body[i].kind # "h"
    THEN LET r == AddIdsFrom(body, i + 1, prefix, headings)
         IN  [body |-> <<body[i]>> \o r.body, headings |-> r.headings]
    ELSE LET level == body[i].level
             inner_raw == Strip(body[i].inner)
             inner_clean == strip_anchor(inner_raw)
             display_text == strip_tags(inner_clean)
             slug == Slug(display_text)
             anchor == AnchorFor(prefix, level, slug, Len(headings))
             attrs == RemoveIdFrom(body[i].attrs, 1)
             r == AddIdsFrom(body, i + 1, prefix,
                             Append(headings, [level |-> level, text |-> display_text, anchor |-> anchor]))
         IN  [body |-> <<Heading(level, attrs \o <<" ","i","d","=","\"">> \o anchor \o <<"\"">>, inner_clean)>> \o r.body,
              headings |-> r.headings]

add_heading_ids(body_html, prefix) == AddIdsFrom(body_html, 1, prefix, <<>>)

\* re.search(r"\bpart\b", s, IGNORECASE)
PartSearch(s) ==
    \E i \in 1..Len(s) :
        /\ StartsWithAt(s, i, <<"p","a","r","t">>, TRUE)
        /\ (i = 1 \/ ~IsWordChar(s[i - 1]))
        /\ (i + 3 = Len(s) \/ ~IsWordChar(s[i + 4]))

PageBreakDiv == Text(<<"<","d","i","v"," ","c","l","a","s","s","=","\"","p","a","g","e","-","b","r","e","a","k","\"",">","<","/","d","i","v",">","\n">>)

BackToTocDiv == Text(<<"<","d","i","v"," ","c","l","a","s","s","=","\"","b","a","c","k","-","t","o","-","t","o","c","\"",">","<","a"," ","h","r","e","f","=","\"","#","t","o","c","\"",">","B","a","c","k"," ","t","o"," ","T","O","C","<","/","a",">","<","/","d","i","v",">","\n">>)

\* the test of add_back_link on the heading's inner markup
BackLinkMatch(inner) == PartSearch(inner)

\* the marker put before every matching heading, the first included
PageBreakAlways(flag) == <<PageBreakDiv>>

\* page_break of add_back_link
PageBreakFor(flag) == IF flag THEN <<PageBreakDiv>> ELSE <<>>

RECURSIVE BackLinkFrom(_, _, _)
\* re.sub(heading pattern, add_back_link, body_content) from element i on, with
\* part_break_inserted = flag on entry
BackLinkFrom(body, i, flag) ==
    IF i > Len(body) THEN [body |-> <<>>, flag |-> flag]
    ELSE IF body[i].kind # "h" \/ ~BackLinkMatch(body[i].inner)
    THEN LET r == BackLinkFrom(body, i + 1, flag)
         IN  [body |-> <<body[i]>> \o r.body, flag |-> r.flag]
    ELSE LET r == BackLinkFrom(body, i + 1, TRUE)
         IN  [body |-> PageBreakFor(flag) \o <<BackToTocDiv, body[i]>> \o r.body, flag |-> r.flag]

add_back_link_pass(body_content, flag) == BackLinkFrom(body_content, 1, flag)

-----------------------------------------------------------------------------
(* build_combined_html.                                                    *)

\* Path(__file__).resolve().parent
RepoRoot == <<<<"r","e","p","o">>>>

\* a file path: the components of its directory and its file name
FilePath(parent, name) == [parent |-> parent, name |-> name]

\* Path.stem: the name without its last suffix
Stem(name) ==
    LET dots == {i \in 2..(Len(name) - 1) : name[i] = "."}
    IN  IF dots = {} THEN name
        ELSE SubSeq(name, 1, (CHOOSE i \in dots : \A m \in dots : i >= m) - 1)

\* a file as read_text returns it: the inner text of its <head> and the
\* elements of its <body> (both empty when the tag is absent)
HtmlFile(head, body) == [head |-> head, body |-> body]

\* _tag(text, "head"), stripped
tag_head(file) == Strip(file.head)

\* _tag(text, "body")
tag_body(file) == file.body

\* _rewrite_src over the text of every element of the body
RewriteBody(body, base_dir, repo_root) ==
    [i \in 1..Len(body) |->
        [body[i] EXCEPT !.attrs = rewrite_src(@, base_dir, repo_root),
                        !.inner = rewrite_src(@, base_dir, repo_root)]]

\* section_id = f"section-{html_path.stem}"
SectionId(html_path) == <<"s","e","c","t","i","o","n","-">> \o Stem(html_path.name)

\* title of the top-level entry
TocTitle(headings, html_path) ==
    IF headings # <<>> THEN headings[1].text
    ELSE Title(ReplaceUnderscores(Stem(html_path.name)))

\* the strings appended to toc_items
TocSection(section_id, title) ==
    [kind |-> "toc-section", level |-> 0, href |-> <<"#">> \o section_id, text |-> title]

TocHeading(h) == [kind |-> "toc-h", level |-> h.level, href |-> <<"#">> \o h.anchor, text |-> h.text]

TocSubOpen == [kind |-> "toc-sub-open", level |-> 0, href |-> <<>>, text |-> <<>>]

TocSubClose == [kind |-> "toc-sub-close", level |-> 0, href |-> <<>>, text |-> <<>>]

TocItemClose == [kind |-> "li-close", level |-> 0, href |-> <<>>, text |-> <<>>]

\* part_links: built for the file at loop index i (0-based) only when i = 0
PartLinks(i, headings) ==
    IF i = 0
    THEN LET matching == SelectSeq(headings, LAMBDA h : PartSearch(h.text))
         IN  [k \in 1..Len(matching) |-> TocHeading(matching[k])]
    ELSE <<>>

\* the items one loop iteration appends to toc_items
TocItemsFor(i, section_id, title, headings) ==
    LET part_links == PartLinks(i, headings)
    IN  <<TocSection(section_id, title)>>
        \o (IF part_links # <<>> THEN <<TocSubOpen>> \o part_links \o <<TocSubClose>> ELSE <<>>)
        \o <<TocItemClose>>

\* the section put in front of the list
AddSectionFront(secs, sec) == <<sec>> \o secs

\* sections.append(...)
AddSection(secs, sec) == Append(secs, sec)

\* the wrapper of a section
SectionOpen(sec) ==
    [kind |-> "section-open", level |-> 0, attrs |-> sec.id, inner |-> sec.source]

SectionClose == [kind |-> "section-close", level |-> 0, attrs |-> <<>>, inner |-> <<>>]

\* the separator of "\n".join(sections)
SectionSeparator == <<Text(<<"\n">>)>>

\* "\n".join(sections), as elements
JoinSections(secs) ==
    Join([i \in 1..Len(secs) |-> <<SectionOpen(secs[i])>> \o secs[i].body \o <<SectionClose>>],
         SectionSeparator)

\* if not html_paths: raise ValueError
BuildEmpty ==
    /\ mpc = "build"
    /\ html_paths = <<>>
    /\ mpc' = "error"
    /\ UNCHANGED <<max_workers, task, rc, finish_order, html_paths, rw>>
    /\ UNCHANGED buildVars

\* one iteration of the loop over html_paths; file is what read_text returns
BuildIteration(file) ==
    LET html_path == html_paths[idx + 1]
        section_id == SectionId(html_path)
        rewritten == RewriteBody(tag_body(file), html_path.parent, RepoRoot)
        ids == add_heading_ids(rewritten, section_id)
        title == TocTitle(ids.headings, html_path)
        linked == add_back_link_pass(ids.body, part_break_inserted)
    IN  /\ head_content' = IF idx = 0 THEN tag_head(file) ELSE head_content
        /\ toc_items' = toc_items \o TocItemsFor(idx, section_id, title, ids.headings)
        /\ doc_headings' = Append(doc_headings, ids.headings)
        /\ part_break_inserted' = linked.flag
        /\ sections' = AddSection(sections,
                                  [id |-> section_id, source |-> html_path.name, body |-> linked.body])
        /\ idx' = idx + 1

BuildStep(files) ==
    /\ mpc = "build"
    /\ idx < Len(html_paths)
    /\ \E file \in files : BuildIteration(file)
    /\ UNCHANGED <<mainVars, combined, rw>>

\* the composition and output_path.write_text(combined)
WriteCombined ==
    /\ mpc = "build"
    /\ html_paths # <<>>
    /\ idx = Len(html_paths)
    /\ combined' = <<[head |-> head_content, toc |-> toc_items, body |-> JoinSections(sections)]>>
    /\ mpc' = "done"
    /\ UNCHANGED <<max_workers, task, rc, finish_order, html_paths, rw>>
    /\ UNCHANGED <<idx, toc_items, sections, doc_headings, part_break_inserted, head_content>>

-----------------------------------------------------------------------------
(* main and _convert_notebook.                                             *)

NOTEBOOKS ==
    << [nb_rel |-> <<"p","o","l","y","g","o","n","_","r","a","t","i","o","_","g","e","o","m","e","t","r","y","/","p","o","l","y","g","o","n","_","r","a","t","i","o","_","p","r","o","b","l","e","m",".","i","p","y","n","b">>,
        html_name |-> <<"p","o","l","y","g","o","n","_","r","a","t","i","o","_","p","r","o","b","l","e","m",".","h","t","m","l">>],
       [nb_rel |-> <<"p","y","s","y","m","/","p","y","s","y","m","_","p","o","l","y","g","o","n","_","r","a","t","i","o","_","W","u","_","a","n","d","_","G","r","o","e","b","n","e","r",".","i","p","y","n","b">>,
        html_name |-> <<"p","y","s","y","m","_","p","o","l","y","g","o","n","_","r","a","t","i","o","_","W","u","_","a","n","d","_","G","r","o","e","b","n","e","r",".","h","t","m","l">>],
       [nb_rel |-> <<"n","e","w","c","l","i","d","_","m","e","t","h","o","d","s","/","n","e","w","c","l","i","d","_","p","o","l","y","g","o","n","_","r","a","t","i","o",".","i","p","y","n","b">>,
        html_name |-> <<"n","e","w","c","l","i","d","_","p","o","l","y","g","o","n","_","r","a","t","i","o",".","h","t","m","l">>],
       [nb_rel |-> <<"a","r","i","s","t","o","t","l","e","/","a","r","i","s","t","o","t","l","e","_","p","o","l","y","g","o","n","_","r","a","t","i","o",".","i","p","y","n","b">>,
        html_name |-> <<"a","r","i","s","t","o","t","l","e","_","p","o","l","y","g","o","n","_","r","a","t","i","o",".","h","t","m","l">>] >>

Tasks == 1..Len(NOTEBOOKS)

\* the greatest os.cpu_count() considered; 0 stands for None
MaxCpu == 5

\* max_workers = min(4, max(1, os.cpu_count() or 1))
MaxWorkersFor(cpu_count) ==
    LET n == IF cpu_count = 0 THEN 1 ELSE cpu_count
        m == IF n > 1 THEN n ELSE 1
    IN  IF m < 4 THEN m ELSE 4

\* the exit statuses of the converter that are considered
ExitCodes == {0, 1}

\* output_dir / html_name for every entry of NOTEBOOKS, with output_dir = nb_path.parent
OutputPaths ==
    [i \in Tasks |->
        LET nb_path == PathJoin(RepoRoot, NOTEBOOKS[i].nb_rel)
        IN  FilePath(SubSeq(nb_path, 1, Len(nb_path) - 1), NOTEBOOKS[i].html_name)]

\* the value _convert_notebook returns
ConvertResult(i) == OutputPaths[i]

\* subprocess.run without check=True: the exit status is ignored
TaskAfterRunUnchecked(code) == "ok"

\* subprocess.run(cmd, check=True): a non-zero status raises CalledProcessError
TaskAfterRun(code) == IF code = 0 THEN "ok" ELSE "failed"

Finished(i) == task[i] \in {"ok", "missing", "failed"}

\* write_requirements_from_venv returns
RequirementsOk ==
    /\ mpc = "req"
    /\ \E cpu_count \in 0..MaxCpu : max_workers' = MaxWorkersFor(cpu_count)
    /\ mpc' = "submit"
    /\ UNCHANGED <<task, rc, finish_order, html_paths, rw>>
    /\ UNCHANGED buildVars

\* write_requirements_from_venv raises (pip fails, or prints nothing)
RequirementsFail ==
    /\ mpc = "req"
    /\ mpc' = "aborted"
    /\ UNCHANGED <<max_workers, task, rc, finish_order, html_paths, rw>>
    /\ UNCHANGED buildVars

\* executor.submit for the next entry of NOTEBOOKS
Submit ==
    /\ mpc = "submit"
    /\ \E i \in Tasks :
          /\ task[i] = "new"
          /\ \A k \in 1..(i - 1) : task[k] # "new"
          /\ task' = [task EXCEPT ![i] = "queued"]
          /\ mpc' = IF i = Len(NOTEBOOKS) THEN "collect" ELSE "submit"
    /\ UNCHANGED <<max_workers, rc, finish_order, html_paths, rw>>
    /\ UNCHANGED buildVars

\* a free worker takes the oldest queued call
Start(i) ==
    /\ task[i] = "queued"
    /\ \A k \in 1..(i - 1) : task[k] # "queued"
    /\ Cardinality({k \in Tasks : task[k] = "running"}) < max_workers
    /\ task' = [task EXCEPT ![i] = "running"]
    /\ UNCHANGED <<mpc, max_workers, rc, finish_order, html_paths, rw>>
    /\ UNCHANGED buildVars

\* _convert_notebook: nb_path does not exist, FileNotFoundError
TaskMissing(i) ==
    /\ task[i] = "running"
    /\ task' = [task EXCEPT ![i] = "missing"]
    /\ finish_order' = Append(finish_order, i)
    /\ UNCHANGED <<mpc, max_workers, rc, html_paths, rw>>
    /\ UNCHANGED buildVars

\* _convert_notebook: the converter runs and exits with some status
TaskRun(i) ==
    /\ task[i] = "running"
    /\ \E code \in ExitCodes :
          /\ rc' = [rc EXCEPT ![i] = code]
          /\ task' = [task EXCEPT ![i] = TaskAfterRun(code)]
    /\ finish_order' = Append(finish_order, i)
    /\ UNCHANGED <<mpc, max_workers, html_paths, rw>>
    /\ UNCHANGED buildVars

\* future.result() of the next future returns
CollectResult ==
    /\ mpc = "collect"
    /\ Len(html_paths) < Len(NOTEBOOKS)
    /\ task[Len(html_paths) + 1] = "ok"
    /\ html_paths' = Append(html_paths, ConvertResult(Len(html_paths) + 1))
    /\ UNCHANGED <<mpc, max_workers, task, rc, finish_order, rw>>
    /\ UNCHANGED buildVars

\* future.result() of the next future raises the task's exception
CollectRaise ==
    /\ mpc = "collect"
    /\ Len(html_paths) < Len(NOTEBOOKS)
    /\ task[Len(html_paths) + 1] \in {"missing", "failed"}
    /\ mpc' = "raising"
    /\ UNCHANGED <<max_workers, task, rc, finish_order, html_paths, rw>>
    /\ UNCHANGED buildVars

\* the with block is left normally: shutdown(wait=True), then build_combined_html is called
PoolExit ==
    /\ mpc = "collect"
    /\ Len(html_paths) = Len(NOTEBOOKS)
    /\ \A i \in Tasks : Finished(i)
    /\ mpc' = "build"
    /\ UNCHANGED <<max_workers, task, rc, finish_order, html_paths, rw>>
    /\ UNCHANGED buildVars

\* the with block is left by the exception: shutdown(wait=True) lets every
\* submitted call finish, then the exception leaves main
PoolExitRaising ==
    /\ mpc = "raising"
    /\ \A i \in Tasks : Finished(i)
    /\ mpc' = "aborted"
    /\ UNCHANGED <<max_workers, task, rc, finish_order, html_paths, rw>>
    /\ UNCHANGED buildVars

-----------------------------------------------------------------------------
(* Inputs and specifications.                                              *)

\* the greatest number of files handed to build_combined_html directly
MaxDocs == 2

\* the greatest number of elements in the body of a file
MaxElems == 2

\* the greatest number of path components after the prefix of a src value
MaxSrcParts == 2

NoRewrite == [body |-> <<>>, src |-> <<>>, base_dir |-> <<>>, out |-> <<>>, called |-> FALSE]

\* heading elements as the converter writes them, and other markup
ElementPool ==
    { Heading(1, <<" ","i","d","=","\"","P","a","r","t","-","1","\"">>, <<"P","a","r","t"," ","1","<","a"," ","c","l","a","s","s","=","\"","a","n","c","h","o","r","-","l","i","n","k","\""," ","h","r","e","f","=","\"","#","P","a","r","t","-","1","\"",">","&","#","1","8","2",";","<","/","a",">">>),
      Heading(3, <<>>, <<" ","?","?"," ">>),
      Heading(2, <<>>, <<"<","s","p","a","n"," ","c","l","a","s","s","=","\"","p","a","r","t","\"",">","S","e","t","u","p","<","/","s","p","a","n",">">>),
      Heading(2, <<>>, <<"P","a","r","<","b",">","t","<","/","b",">"," ","2">>),
      Text(<<"<","i","m","g"," ","s","r","c","=","\"","f","i","g",".","p","n","g","\"",">">>) }

RECURSIVE SeqsUpTo(_, _)
\* the sequences over S of length at most n
SeqsUpTo(S, n) ==
    IF n = 0 THEN {<<>>}
    ELSE LET shorter == SeqsUpTo(S, n - 1)
         IN  shorter \cup {Append(s, x) : s \in shorter, x \in S}

InputFiles == {HtmlFile(<<" ","<","t","i","t","l","e",">","t","<","/","t","i","t","l","e",">","\n">>, body) : body \in SeqsUpTo(ElementPool, MaxElems)}

\* the files main's run reads back
MainFiles ==
    { HtmlFile(<<"<","t","i","t","l","e",">","t","<","/","t","i","t","l","e",">">>, <<>>),
      HtmlFile(<<"<","t","i","t","l","e",">","t","<","/","t","i","t","l","e",">">>, <<Heading(1, <<>>, <<"P","a","r","t"," ","1">>), Text(<<"<","i","m","g"," ","s","r","c","=","\"","f","i","g",".","p","n","g","\"",">">>)>>) }

InputNames == <<<<"a",".","h","t","m","l">>, <<"a","_","b",".","h","t","m","l">>, <<"c",".","h","t","m","l">>, <<"d",".","h","t","m","l">>>>

InputDir == RepoRoot \o <<<<"n","b">>>>

InputPaths(n) == [i \in 1..n |-> FilePath(InputDir, InputNames[i])]

InitBuildVars ==
    /\ idx = 0
    /\ toc_items = <<>>
    /\ sections = <<>>
    /\ doc_headings = <<>>
    /\ part_break_inserted = FALSE
    /\ head_content = <<>>
    /\ combined = <<>>

\* main() is entered
InitMain ==
    /\ mpc = "req"
    /\ max_workers = 0
    /\ task = [i \in Tasks |-> "new"]
    /\ rc = [i \in Tasks |-> -1]
    /\ finish_order = <<>>
    /\ html_paths = <<>>
    /\ rw = NoRewrite
    /\ InitBuildVars

NextMain ==
    \/ RequirementsOk
    \/ RequirementsFail
    \/ Submit
    \/ \E i \in Tasks : Start(i)
    \/ \E i \in Tasks : TaskMissing(i)
    \/ \E i \in Tasks : TaskRun(i)
    \/ CollectResult
    \/ CollectRaise
    \/ PoolExit
    \/ PoolExitRaising
    \/ BuildStep(MainFiles)
    \/ WriteCombined

SpecMain == InitMain /\ [][NextMain]_vars

\* build_combined_html is called with a list of files
InitBuild ==
    /\ mpc = "build"
    /\ max_workers = 0
    /\ task = [i \in Tasks |-> "new"]
    /\ rc = [i \in Tasks |-> -1]
    /\ finish_order = <<>>
    /\ html_paths \in {InputPaths(n) : n \in 0..MaxDocs}
    /\ rw = NoRewrite
    /\ InitBuildVars

NextBuild ==
    \/ BuildEmpty
    \/ BuildStep(InputFiles)
    \/ WriteCombined

SpecBuild == InitBuild /\ [][NextBuild]_vars

SrcPrefixes == {<<>>, <<"h","t","t","p",":">>, <<"H","T","T","P",":">>, <<"s","3",":">>, <<"d","a","t","a",":">>, <<"#">>}

SrcLeads == {<<>>, <<"/">>, <<"/","/">>}

SrcParts == {<<".",".">>, <<"i","m","g">>, <<"f",".","p","n","g">>, <<"r","e","p","o">>}

SrcValues ==
    {v \in {p \o l \o Join(parts, <<"/">>) :
                p \in SrcPrefixes, l \in SrcLeads, parts \in SeqsUpTo(SrcParts, MaxSrcParts)} :
        v # <<>>}

SrcBefore == <<"<","i","m","g"," ","a","l","t","=","\"","x","\""," ">>

SrcAfter == <<" ","w","i","d","t","h","=","\"","3","\"",">">>

BaseDirs == {RepoRoot, RepoRoot \o <<<<"n","b">>>>, <<<<"t","m","p">>>>}

\* _rewrite_src is about to be called on a body with one src reference
InitRewrite ==
    /\ mpc = "idle"
    /\ max_workers = 0
    /\ task = [i \in Tasks |-> "new"]
    /\ rc = [i \in Tasks |-> -1]
    /\ finish_order = <<>>
    /\ html_paths = <<>>
    /\ InitBuildVars
    /\ \E v \in SrcValues, b \in BaseDirs :
          rw = [body |-> SrcBefore \o <<"s","r","c","=","\"">> \o v \o <<"\"">> \o SrcAfter,
                src |-> v, base_dir |-> b, out |-> <<>>, called |-> FALSE]

CallRewriteSrc ==
    /\ mpc = "idle"
    /\ ~rw.called
    /\ rw' = [rw EXCEPT !.out = rewrite_src(rw.body, rw.base_dir, RepoRoot), !.called = TRUE]
    /\ UNCHANGED mainVars
    /\ UNCHANGED buildVars

NextRewrite == CallRewriteSrc

SpecRewrite == InitRewrite /\ [][NextRewrite]_vars

-----------------------------------------------------------------------------
(* Properties.                                                             *)

\* the positions (file, heading) of the headings recorded so far
HeadingPositions ==
    UNION {{<<d, k>> : k \in 1..Len(doc_headings[d])} : d \in 1..Len(doc_headings)}

\* C1: in one run of build_combined_html over files with pairwise distinct
\* stems, no two headings (of the same or of different files) get the same anchor id.
AnchorIdsUnique ==
    \A p \in HeadingPositions, q \in HeadingPositions :
        p # q => doc_headings[p[1]][p[2]].anchor # doc_headings[q[1]][q[2]].anchor

\* the index of the n-th item of the given kind in items
NthOfKind(items, kind, n) ==
    CHOOSE i \in 1..Len(items) :
        /\ items[i].kind = kind
        /\ Cardinality({j \in 1..i : items[j].kind = kind}) = n

\* the items of the table of contents inside the top-level entry of file d
TocInside(items, d) ==
    LET first == NthOfKind(items, "toc-section", d)
        last == NthOfKind(items, "li-close", d)
    IN  SubSeq(items, first + 1, last - 1)

\* the nested entries the table of contents is to hold for a list of headings
ExpectedNested(headings) ==
    LET matching == SelectSeq(headings, LAMBDA h : PartSearch(h.text))
    IN  [k \in 1..Len(matching) |-> TocHeading(matching[k])]

\* C2: once the document is written, under the top-level entry of every
\* file, at every position of the input list, the table of contents holds exactly
\* one nested entry per heading of that file whose display text matches the word
\* "part", in order and linking to the heading's anchor, and no nested list
\* when no heading matches.
TocNestedEntriesEveryFile ==
    mpc = "done" =>
        \A d \in 1..Len(html_paths) :
            LET inside == TocInside(combined[1].toc, d)
                expected == ExpectedNested(doc_headings[d])
            IN  /\ SelectSeq(inside, LAMBDA t : t.kind = "toc-h") = expected
                /\ expected = <<>> => inside = <<>>

\* C3: applying the back-to-TOC rewrite to the body of a section that
\* went through it already returns that body unchanged, whatever the flag is.
BackLinkRewriteIdempotent ==
    \A i \in 1..Len(sections) : \A flag \in BOOLEAN :
        add_back_link_pass(sections[i].body, flag).body = sections[i].body

\* a conversion has failed: a notebook is missing or the converter exited non-zero
ConversionFailed == \E i \in Tasks : task[i] = "missing" \/ rc[i] \notin {-1, 0}

NothingBuilt ==
    /\ idx = 0
    /\ sections = <<>>
    /\ toc_items = <<>>
    /\ combined = <<>>

\* C4: once a conversion task has failed, under every interleaving of the
\* tasks, build_combined_html is never entered and nothing is written, and the
\* run cannot stop anywhere but aborted (every run is finite, so it ends there).
FailedConversionAborts ==
    ConversionFailed =>
        /\ mpc \in {"submit", "collect", "raising", "aborted"}
        /\ NothingBuilt
        /\ mpc # "aborted" =>
              ENABLED (\/ Submit
                       \/ \E i \in Tasks : Start(i) \/ TaskMissing(i) \/ TaskRun(i)
                       \/ CollectResult
                       \/ CollectRaise
                       \/ PoolExitRaising)

\* a run aborted by the non-zero exit of one converter while another conversion succeeded
FailedConversionAbortsWitness ==
    /\ mpc = "aborted"
    /\ \E i \in Tasks : rc[i] = 1
    /\ \E i \in Tasks : task[i] = "ok"
    /\ NothingBuilt

\* C5: when the run completes, the written document has one top-level
\* entry and one section per entry of NOTEBOOKS, the i-th of each belonging
\* to the i-th notebook, whatever the order in which the tasks finished.
TocAndSectionsFollowNotebooks ==
    mpc = "done" =>
        LET tops == SelectSeq(combined[1].toc, LAMBDA t : t.kind = "toc-section")
            secs == SelectSeq(combined[1].body, LAMBDA e : e.kind = "section-open")
        IN  /\ Len(tops) = Len(NOTEBOOKS)
            /\ Len(secs) = Len(NOTEBOOKS)
            /\ \A i \in 1..Len(NOTEBOOKS) :
                  /\ tops[i].href = <<"#","s","e","c","t","i","o","n","-">> \o Stem(NOTEBOOKS[i].html_name)
                  /\ secs[i].attrs = <<"s","e","c","t","i","o","n","-">> \o Stem(NOTEBOOKS[i].html_name)
                  /\ secs[i].inner = NOTEBOOKS[i].html_name

\* a completed run whose tasks finished in another order than they were submitted
TocAndSectionsFollowNotebooksWitness ==
    /\ mpc = "done"
    /\ finish_order # <<1, 2, 3, 4>>
    /\ Len(combined[1].toc) > Len(NOTEBOOKS)

\* the number of headings with an empty slug among the first k of a list
EmptySlugCount(headings, k) == Cardinality({j \in 1..k : Slug(headings[j].text) = <<>>})

\* the anchor id with a given ordinal in the fallback form
ExpectedAnchor(prefix, h, ordinal) ==
    IF Slug(h.text) # <<>> THEN prefix \o <<"-">> \o Slug(h.text)
    ELSE prefix \o <<"-","h">> \o IntToStr(h.level) \o <<"-">> \o IntToStr(ordinal)

\* C6 as stated: the ordinal of the fallback id counts the headings of the
\* file so far that produced an empty slug.
FallbackOrdinalCountsEmptySlugs ==
    \A p \in HeadingPositions :
        LET h == doc_headings[p[1]][p[2]]
        IN  h.anchor = ExpectedAnchor(sections[p[1]].id, h, EmptySlugCount(doc_headings[p[1]], p[2]))

\* C6 as amended: the ordinal of the fallback id is the 1-based position of
\* the heading among all level 1-4 headings of the file, whatever their slugs.
FallbackOrdinalIsHeadingPosition ==
    \A p \in HeadingPositions :
        LET h == doc_headings[p[1]][p[2]]
        IN  h.anchor = ExpectedAnchor(sections[p[1]].id, h, p[2])

\* a file whose second heading has an empty slug and whose first has not
FallbackOrdinalWitness ==
    \E d \in 1..Len(doc_headings) :
        /\ Len(doc_headings[d]) >= 2
        /\ Slug(doc_headings[d][1].text) # <<>>
        /\ Slug(doc_headings[d][2].text) = <<>>
        /\ doc_headings[d][2].anchor = sections[d].id \o <<"-","h","3","-","2">>

\* src has a URL scheme followed by "://"
IsAbsoluteUrl(src) ==
    \E k \in 1..Len(src) :
        /\ IsLowerChar(src[1]) \/ IsUpperChar(src[1])
        /\ \A i \in 1..k : (IsWordChar(src[i]) /\ src[i] # "_") \/ src[i] \in {"+", "-", "."}
        /\ StartsWithAt(src, k + 1, <<":","/","/">>, FALSE)

\* C7: the body returned by _rewrite_src differs from the body passed in
\* only in the src value; an absolute URL, a data: URI and a value that starts with
\* "#" are kept; a relative value is replaced by its path relative to the root
\* when it resolves inside the root and is kept when it resolves outside.
RewriteSrcByCases ==
    rw.called =>
        LET kept == rw.body
            target == Resolve(rw.base_dir \o PathParts(rw.src))
            moved == SrcBefore \o <<"s","r","c","=","\"">> \o RelativePosix(target, RepoRoot) \o <<"\"">> \o SrcAfter
        IN  IF IsAbsoluteUrl(rw.src) \/ StartsWith(rw.src, <<"d","a","t","a",":">>) \/ StartsWith(rw.src, <<"#">>)
            THEN rw.out = kept
            ELSE IF StartsWith(rw.src, <<"/">>)
            THEN /\ StartsWith(rw.out, SrcBefore)
                 /\ StartsWithAt(rw.out, Len(rw.out) - Len(SrcAfter) + 1, SrcAfter, FALSE)
            ELSE IF IsRelativeTo(target, RepoRoot) THEN rw.out = moved
            ELSE rw.out = kept

IsPageBreak(e) == e.kind = "text" /\ FindFrom(e.inner, 1, <<"c","l","a","s","s","=","\"","p","a","g","e","-","b","r","e","a","k","\"">>, FALSE) # 0

\* C8: in the written document a page-break boundary stands between every
\* two consecutive sections.
PageBreakBetweenSections ==
    mpc = "done" =>
        LET body == combined[1].body
        IN  \A i \in 1..Len(body) :
                (body[i].kind = "section-close" /\ i < Len(body)) =>
                    \E j \in (i + 1)..Len(body) :
                        /\ IsPageBreak(body[j])
                        /\ \A m \in (i + 1)..j : body[m].kind # "section-open"

RECURSIVE Concat(_)
Concat(seqs) == IF seqs = <<>> THEN <<>> ELSE Head(seqs) \o Concat(Tail(seqs))

\* the elements of the processed bodies, in the order of the files
ProcessedElements == Concat([i \in 1..Len(sections) |-> sections[i].body])

HeadingsAt(body) == {p \in 1..Len(body) : body[p].kind = "h"}

\* C10: a heading of a processed body has the back link right before it
\* exactly when its recorded display text matches the word "part".
BackLinkIffDisplayTextMatches ==
    \A d \in 1..Len(sections) :
        LET body == sections[d].body
        IN  \A p \in HeadingsAt(body) :
                LET k == Cardinality({q \in HeadingsAt(body) : q <= p})
                IN  (p > 1 /\ body[p - 1] = BackToTocDiv) <=> PartSearch(doc_headings[d][k].text)

=============================================================================
